---- MODULE Spec2Model ----
(***************************************************************************)
(* Model of PickHandler (@here/harp-mapview/lib/PickHandler.ts): the       *)
(* feature index resolver, the classification of one geometry hit, the     *)
(* broad-phase tile cull, road picking and the final distance sort.        *)
(*                                                                         *)
(* Optional values (TypeScript `undefined`) are sequences of length <= 1:  *)
(* <<>> is undefined, <<v>> is the value v.                                *)
(***************************************************************************)
EXTENDS Integers, Sequences, FiniteSets, TLC

VARIABLES
    enableRoadPicking,    \* public flag of the handler
    enablePickTechnique,  \* public flag of the handler
    m_roadPicker,         \* <<>> or <<[registered |-> set of tile ids]>>
    m_debugGroup,         \* the debug overlay group: children, position, attached
    tmpOBB,               \* module-level scratch box shared by all queries
    scene,                \* what mapView exposes: world center, labels, tiles
    updateRequested,      \* mapView.update() was called since the last render
    computedBBoxes,       \* objects whose geometry.boundingBox has been computed
    lastCall,             \* the most recent public call and what it returned
    intersect,            \* the raw hit handed to the per-hit code
    hitOut                \* <<>> or what the per-hit code produced for it

vars == <<enableRoadPicking, enablePickTechnique, m_roadPicker, m_debugGroup,
          tmpOBB, scene, updateRequested, computedBBoxes, lastCall, intersect,
          hitOut>>

----------------------------------------------------------------------------
(* Bounds of the model *)

MaxStart == 2       \* offsets in `starts` range over 0..MaxStart
MaxIndex == 3       \* raw vertex / point indices range over 0..MaxIndex
MaxFace == 1        \* face indices range over 0..MaxFace
MaxInfos == 3       \* objInfos holds at most MaxInfos records
MaxDist == 1        \* distances range over 0..MaxDist

None == <<>>
Some(v) == <<v>>
IsSome(o) == Len(o) = 1
Val(o) == o[1]

----------------------------------------------------------------------------
(* Enumerations of the program *)

\* GeometryType of harp-datasource-protocol, as switched on in the handler
TableGeometryTypes ==
    {"Point", "Text", "Line", "ExtrudedLine", "SolidLine", "TextPath",
     "Polygon", "ExtrudedPolygon", "Object3D"}
GeometryTypes == TableGeometryTypes \cup {"Unspecified", "Other"}

PickObjectType == {"Unspecified", "Point", "Line", "Area", "Text", "Icon", "Object3D"}

\* classes of the hit object that the handler distinguishes with instanceof
ObjectKinds == {"Mesh", "MapViewPoints", "Line"}

----------------------------------------------------------------------------
(* getIntersectedFeatureIndex *)

\* mutant: the loop breaks on >= instead of >, so a hit exactly on an offset
\* is given to the feature before it
RECURSIVE ScanStarts_Boundary(_, _, _, _)
ScanStarts_Boundary(starts, intersectIndex, i, featureIndex) ==
    IF i > Len(starts) THEN featureIndex
    ELSE IF starts[i] >= intersectIndex THEN featureIndex
    ELSE ScanStarts_Boundary(starts, intersectIndex, i + 1, featureIndex + 1)

\* the for-loop over featureData.starts: featureIndex counts the offsets
\* passed before the first one that is greater than intersectIndex
RECURSIVE ScanStarts(_, _, _, _)
ScanStarts(starts, intersectIndex, i, featureIndex) ==
    IF i > Len(starts) THEN featureIndex
    ELSE IF starts[i] > intersectIndex THEN featureIndex
    ELSE ScanStarts(starts, intersectIndex, i + 1, featureIndex + 1)

IntersectIndex(hit) ==
    IF IsSome(hit.faceIndex) THEN Val(hit.faceIndex) * 3 ELSE Val(hit.index)

FeatureOf(hit) == Val(hit.object.userData).feature

\* mutant: the point-primitive shortcut is taken after the `starts` checks
getIntersectedFeatureIndex_PointsLate(hit) ==
    LET featureData == FeatureOf(hit) IN
    IF ~IsSome(featureData) THEN None
    ELSE LET starts == Val(featureData).starts IN
         IF \/ ~IsSome(starts)
            \/ Len(Val(starts)) = 0
            \/ (~IsSome(hit.faceIndex) /\ ~IsSome(hit.index))
         THEN None
         ELSE IF hit.object.kind = "MapViewPoints" THEN hit.index
         ELSE IF Len(Val(starts)) = 1 THEN Some(0)
         ELSE Some(ScanStarts(Val(starts), IntersectIndex(hit), 1, 0) - 1)

\* mutant: an empty `starts` is treated like a single-feature buffer
getIntersectedFeatureIndex_EmptyStarts(hit) ==
    LET featureData == FeatureOf(hit) IN
    IF ~IsSome(featureData) THEN None
    ELSE IF hit.object.kind = "MapViewPoints" THEN hit.index
    ELSE LET starts == Val(featureData).starts IN
         IF \/ ~IsSome(starts)
            \/ (~IsSome(hit.faceIndex) /\ ~IsSome(hit.index))
         THEN None
         ELSE IF Len(Val(starts)) <= 1 THEN Some(0)
         ELSE Some(ScanStarts(Val(starts), IntersectIndex(hit), 1, 0) - 1)

getIntersectedFeatureIndex(hit) ==
    LET featureData == FeatureOf(hit) IN
    IF ~IsSome(featureData) THEN None
    ELSE IF hit.object.kind = "MapViewPoints" THEN hit.index
    ELSE LET starts == Val(featureData).starts IN
         IF \/ ~IsSome(starts)
            \/ Len(Val(starts)) = 0
            \/ (~IsSome(hit.faceIndex) /\ ~IsSome(hit.index))
         THEN None
         ELSE IF Len(Val(starts)) = 1 THEN Some(0)
         ELSE Some(ScanStarts(Val(starts), IntersectIndex(hit), 1, 0) - 1)

----------------------------------------------------------------------------
(* addObjInfo, getFeatureId and the geometry type table *)

\* objInfos[featureIndex]: a JavaScript array read, undefined out of range
ArrayAt(arr, i) == IF i \in DOMAIN arr THEN Some(arr[i]) ELSE None

\* the userData the hit's PickResult ends up with
addObjInfo(featureData, hit) ==
    IF ~IsSome(featureData.objInfos) THEN None
    ELSE LET featureIndex == getIntersectedFeatureIndex(hit) IN
         IF IsSome(featureIndex)
         THEN ArrayAt(Val(featureData.objInfos), Val(featureIndex) + 1)
         ELSE None

\* getFeatureId of harp-datasource-protocol: the record's id attribute
getFeatureId(objInfo) == objInfo.id

\* mutant: polygons fall through to the line cases
PickObjectTypeOf_PolygonAsLine(geometryType) ==
    IF ~IsSome(geometryType) THEN "Unspecified"
    ELSE CASE Val(geometryType) \in {"Point", "Text"} -> "Point"
           [] Val(geometryType) \in {"Line", "ExtrudedLine", "SolidLine", "TextPath",
                                     "Polygon"} -> "Line"
           [] Val(geometryType) \in {"ExtrudedPolygon"} -> "Area"
           [] Val(geometryType) = "Object3D" -> "Object3D"
           [] OTHER -> "Unspecified"

\* the switch over featureData.geometryType
PickObjectTypeOf(geometryType) ==
    IF ~IsSome(geometryType) THEN "Unspecified"
    ELSE CASE Val(geometryType) \in {"Point", "Text"} -> "Point"
           [] Val(geometryType) \in {"Line", "ExtrudedLine", "SolidLine", "TextPath"} -> "Line"
           [] Val(geometryType) \in {"Polygon", "ExtrudedPolygon"} -> "Area"
           [] Val(geometryType) = "Object3D" -> "Object3D"
           [] OTHER -> "Unspecified"

----------------------------------------------------------------------------
(* addDebugIntersect: the overlay children one hit adds, or a TypeError *)

addDebugIntersect(hit) ==
    IF hit.object.kind # "Mesh" THEN [threw |-> FALSE, children |-> <<>>]
    ELSE LET resolved == getIntersectedFeatureIndex(hit)
             featureIndex == IF IsSome(resolved) THEN Val(resolved) ELSE 0
             boundingVolumes == Val(FeatureOf(hit)).boundingVolumes
             sphere == /\ IsSome(boundingVolumes)
                       /\ Val(boundingVolumes) > featureIndex
             \* boundingVolumes[featureIndex] is undefined for a negative
             \* index; addDebugBSphere then reads sphere.radius of undefined
             noSphere == sphere /\ featureIndex < 0
             debug == IF hit.object.geometryDebug THEN <<"ray", "line">> ELSE <<>>
         IN  IF noSphere THEN [threw |-> TRUE, children |-> <<"bbox">>]
             ELSE [threw |-> FALSE,
                   children |-> <<"bbox">> \o (IF sphere THEN <<"bsphere">> ELSE <<>>)
                                \o debug]

----------------------------------------------------------------------------
(* The body of the loop over the raw hits: one PickResult per hit *)

HasFeature(hit) ==
    /\ IsSome(hit.object.userData)
    /\ IsSome(Val(hit.object.userData).feature)

\* mutant: the feature id is taken from the first record whenever objInfos
\* is not empty
GeometryPickResult_FirstInfo(hit, pickTechnique) ==
    LET base == [source |-> "geometry",
                 seq |-> 0,
                 type |-> "Unspecified",
                 distance |-> hit.distance,
                 intersection |-> Some(hit),
                 featureId |-> None,
                 technique |-> None,
                 userData |-> None]
    IN  IF ~HasFeature(hit) THEN base
        ELSE LET featureData == Val(FeatureOf(hit)) IN
             [base EXCEPT
                !.technique = IF pickTechnique
                              THEN Val(hit.object.userData).technique
                              ELSE None,
                !.userData = addObjInfo(featureData, hit),
                !.featureId = IF /\ IsSome(featureData.objInfos)
                                 /\ Len(Val(featureData.objInfos)) >= 1
                              THEN Some(getFeatureId(Val(featureData.objInfos)[1]))
                              ELSE None,
                !.type = PickObjectTypeOf(featureData.geometryType)]

GeometryPickResult(hit, pickTechnique) ==
    LET base == [source |-> "geometry",
                 seq |-> 0,
                 type |-> "Unspecified",
                 distance |-> hit.distance,
                 intersection |-> Some(hit),
                 featureId |-> None,
                 technique |-> None,
                 userData |-> None]
    IN  IF ~HasFeature(hit) THEN base
        ELSE LET featureData == Val(FeatureOf(hit)) IN
             [base EXCEPT
                !.technique = IF pickTechnique
                              THEN Val(hit.object.userData).technique
                              ELSE None,
                !.userData = addObjInfo(featureData, hit),
                !.featureId = IF /\ IsSome(featureData.objInfos)
                                 /\ Len(Val(featureData.objInfos)) = 1
                              THEN Some(getFeatureId(Val(featureData.objInfos)[1]))
                              ELSE None,
                !.type = PickObjectTypeOf(featureData.geometryType)]

\* whether the loop body throws for this hit (only addDebugIntersect can)
HitThrows(hit) == HasFeature(hit) /\ addDebugIntersect(hit).threw

HitDebugChildren(hit) ==
    IF HasFeature(hit) THEN addDebugIntersect(hit).children ELSE <<>>

\* addDebugIntersect calls geometry.computeBoundingBox() on a mesh that has
\* no bounding box yet
HitComputesBBox(hit) == HasFeature(hit) /\ hit.object.kind = "Mesh"

----------------------------------------------------------------------------
(* Input domains *)

OptionOf(S) == {None} \cup {Some(v) : v \in S}

\* the strictly ascending sequence of the elements of a set of numbers
RECURSIVE Ascending(_)
Ascending(S) ==
    IF S = {} THEN <<>>
    ELSE LET m == CHOOSE x \in S : \A y \in S : x <= y
         IN  <<m>> \o Ascending(S \ {m})

\* every strictly ascending `starts` over 0..MaxStart, and `starts` undefined
StartsSet == OptionOf({Ascending(S) : S \in SUBSET (0..MaxStart)})

\* objInfos: undefined, or up to MaxInfos records, record i carrying id i
ObjInfosSet == OptionOf({[i \in 1..n |-> [id |-> i]] : n \in 0..MaxInfos})

FeatureDataSet ==
    [geometryType : OptionOf(GeometryTypes),
     starts : StartsSet,
     objInfos : ObjInfosSet,
     boundingVolumes : {None, Some(MaxInfos)}]

UserDataSet ==
    {None} \cup {Some([feature |-> f, technique |-> Some("technique")]) :
                    f \in OptionOf(FeatureDataSet)}

HitObjects == [kind : ObjectKinds, userData : UserDataSet, geometryDebug : {FALSE}]

RawHits ==
    [object : HitObjects,
     tile : {0},
     slot : {0},
     distance : {0},
     faceIndex : OptionOf(0..MaxFace),
     index : OptionOf(0..MaxIndex)]

----------------------------------------------------------------------------
(* The handler's state outside a scene, used when one hit is examined alone *)

EmptyScene == [worldCenter |-> 0, textElementsRenderer |-> None, tiles |-> <<>>]
NoCall == [op |-> "none"]
\* new OrientedBox3(): at the origin, with no extent
NewOBB == [position |-> 0, extents |-> 0]
\* new THREE.Group(), not yet added to the scene
NewGroup == [children |-> <<>>, position |-> 0, attached |-> FALSE]

\* the constructor: the road picker exists iff enableRoadPicking was passed true
Constructed(roadPicking, pickTechnique) ==
    /\ enableRoadPicking = roadPicking
    /\ enablePickTechnique = pickTechnique
    /\ m_roadPicker = IF roadPicking THEN Some([registered |-> {}]) ELSE None
    /\ m_debugGroup = NewGroup
    /\ tmpOBB = NewOBB
    /\ updateRequested = FALSE
    /\ computedBBoxes = {}
    /\ lastCall = NoCall

\* one hit, examined by the per-hit code of intersectMapObjects
InitHit ==
    /\ \E roadPicking \in BOOLEAN, pickTechnique \in BOOLEAN :
          Constructed(roadPicking, pickTechnique)
    /\ scene = EmptyScene
    /\ intersect \in RawHits
    /\ hitOut = None

\* lines 225-284 for the hit: the resolved index (as addObjInfo computes it
\* when the object has feature metadata) and the PickResult pushed
PickHit ==
    /\ hitOut = None
    /\ hitOut' = Some(
         [featureIndex |-> IF HasFeature(intersect)
                           THEN getIntersectedFeatureIndex(intersect) ELSE None,
          threw |-> HitThrows(intersect),
          pickResult |-> IF HitThrows(intersect) THEN None
                         ELSE Some(GeometryPickResult(intersect, enablePickTechnique))])
    /\ m_debugGroup' = [m_debugGroup EXCEPT !.children = HitDebugChildren(intersect)]
    /\ computedBBoxes' = IF HitComputesBBox(intersect)
                         THEN {<<intersect.tile, intersect.slot>>} ELSE {}
    /\ UNCHANGED <<enableRoadPicking, enablePickTechnique, m_roadPicker, tmpOBB,
                   scene, updateRequested, lastCall, intersect>>

NextHit == PickHit

SpecHit == InitHit /\ [][NextHit]_vars

----------------------------------------------------------------------------
(* The parts of intersectMapObjects *)

\* TextElementsRenderer.pickTextElements: appends the label hits under the
\* pointer, when a text renderer is attached
LabelResults(sc) ==
    IF ~IsSome(sc.textElementsRenderer) THEN <<>>
    ELSE LET labels == Val(sc.textElementsRenderer) IN
         [i \in 1..Len(labels) |->
             [source |-> "label", seq |-> i, type |-> labels[i].type,
              distance |-> labels[i].distance, intersection |-> None,
              featureId |-> None, technique |-> None, userData |-> None]]

\* data sources the geometry pass skips
SkippedDataSource(name) == name = "Terrain" \/ name = "background"

\* mutant: the tile's box is added to the scratch box instead of replacing it
tmpOBBFor_Accumulate(previous, tile, worldCenter) ==
    [position |-> previous.position + tile.boundingBox.position - worldCenter,
     extents |-> tile.boundingBox.extents]

\* mutant: the tile's box is tested where it is, not relative to the world center
tmpOBBFor_NoTranslate(previous, tile, worldCenter) ==
    [position |-> tile.boundingBox.position, extents |-> tile.boundingBox.extents]

\* tmpOBB.copy(tile.boundingBox); tmpOBB.position.sub(worldCenter)
tmpOBBFor(previous, tile, worldCenter) ==
    [position |-> tile.boundingBox.position - worldCenter,
     extents |-> tile.boundingBox.extents]

\* OrientedBox3.intersectsRay(ray) !== undefined, for a pointer ray that meets
\* the map at coordinate `ray` (relative to the world center)
intersectsRay(obb, ray) ==
    /\ obb.position - obb.extents <= ray
    /\ ray <= obb.position + obb.extents

\* rayCaster.intersectObjects(tile.objects, true, intersects): the raw hits
\* the toolkit reports for the tile's objects
intersectObjects(tile) ==
    [j \in 1..Len(tile.objects) |->
        [object |-> tile.objects[j].object,
         tile |-> tile.id,
         slot |-> j,
         distance |-> tile.objects[j].distance,
         faceIndex |-> tile.objects[j].faceIndex,
         index |-> tile.objects[j].index]]

\* the forEach over the tile lists: acc holds the scratch box, the debug
\* boxes added and the raw hits collected so far
RECURSIVE CullTiles(_, _, _, _, _)
CullTiles(tiles, i, ray, worldCenter, acc) ==
    IF i > Len(tiles) THEN acc
    ELSE IF SkippedDataSource(tiles[i].dataSource)
         THEN CullTiles(tiles, i + 1, ray, worldCenter, acc)
    ELSE LET obb == tmpOBBFor(acc.obb, tiles[i], worldCenter) IN
         IF intersectsRay(obb, ray)
         THEN CullTiles(tiles, i + 1, ray, worldCenter,
                        [obb |-> obb,
                         debug |-> Append(acc.debug, "tileBox"),
                         intersects |-> acc.intersects \o intersectObjects(tiles[i])])
         ELSE CullTiles(tiles, i + 1, ray, worldCenter, [acc EXCEPT !.obb = obb])

\* the first raw hit whose processing throws, 0 when none does
FirstThrow(intersects) ==
    LET bad == {i \in DOMAIN intersects : HitThrows(intersects[i])}
    IN  IF bad = {} THEN 0 ELSE CHOOSE i \in bad : \A j \in bad : i <= j

\* the debug children added by the loop for its first n hits
RECURSIVE LoopDebugChildren(_, _)
LoopDebugChildren(intersects, n) ==
    IF n = 0 THEN <<>>
    ELSE LoopDebugChildren(intersects, n - 1) \o HitDebugChildren(intersects[n])

\* RoadPicker.intersectRoads for one tile: the roads of a registered tile
\* under the ground point, as Line results without intersection detail
intersectRoads(picker, tile) ==
    IF tile.id \in picker.registered
    THEN [j \in 1..Len(tile.roads) |->
             [source |-> "road", seq |-> 0, type |-> "Line",
              distance |-> tile.roads[j].distance, intersection |-> None,
              featureId |-> None, technique |-> Some("roadTechnique"),
              userData |-> None]]
    ELSE <<>>

\* mapView.forEachVisibleTile(tile => m_roadPicker.intersectRoads(...))
RECURSIVE RoadHits(_, _, _)
RoadHits(picker, tiles, n) ==
    IF n = 0 THEN <<>>
    ELSE RoadHits(picker, tiles, n - 1) \o intersectRoads(picker, tiles[n])

\* the road hits, numbered in the order they were appended
RoadResults(picker, tiles) ==
    LET hits == RoadHits(picker, tiles, Len(tiles))
    IN  [i \in 1..Len(hits) |-> [hits[i] EXCEPT !.seq = i]]

\* the comparator handed to Array.prototype.sort
CompareDistance(a, b) == a.distance - b.distance

\* mutant: an element is placed before the elements it ties with
InsertSorted_Unstable(sorted, r) ==
    LET k == Cardinality({i \in DOMAIN sorted : CompareDistance(sorted[i], r) < 0})
    IN  SubSeq(sorted, 1, k) \o <<r>> \o SubSeq(sorted, k + 1, Len(sorted))

\* Array.prototype.sort is stable (ECMAScript 2019): an element goes after
\* every element that does not compare greater
InsertSorted(sorted, r) ==
    LET k == Cardinality({i \in DOMAIN sorted : CompareDistance(sorted[i], r) <= 0})
    IN  SubSeq(sorted, 1, k) \o <<r>> \o SubSeq(sorted, k + 1, Len(sorted))

RECURSIVE SortedPrefix(_, _)
SortedPrefix(s, n) ==
    IF n = 0 THEN <<>> ELSE InsertSorted(SortedPrefix(s, n - 1), s[n])

\* mutant: the list is returned as accumulated
SortByDistance_Missing(pickResults) == pickResults

\* pickResults.sort((a, b) => a.distance - b.distance)
SortByDistance(pickResults) == SortedPrefix(pickResults, Len(pickResults))

\* everything one call of intersectMapObjects(x, y) computes, from the
\* handler's state; the pointer position is the one coordinate x
QueryRun(x) ==
    LET labels == LabelResults(scene)
        cull == CullTiles(scene.tiles, 1, x, scene.worldCenter,
                          [obb |-> tmpOBB, debug |-> <<>>, intersects |-> <<>>])
        intersects == cull.intersects
        thrower == FirstThrow(intersects)
        handled == IF thrower = 0 THEN Len(intersects) ELSE thrower
        geometry == [i \in 1..Len(intersects) |->
                        [GeometryPickResult(intersects[i], enablePickTechnique)
                            EXCEPT !.seq = i]]
        \* m_roadPicker!.intersectRoads on an undefined picker
        noPicker == /\ enableRoadPicking
                    /\ ~IsSome(m_roadPicker)
                    /\ Len(scene.tiles) > 0
        roads == IF enableRoadPicking /\ IsSome(m_roadPicker)
                 THEN RoadResults(Val(m_roadPicker), scene.tiles)
                 ELSE <<>>
        threw == thrower # 0 \/ noPicker
        sorted == SortByDistance(labels \o geometry \o roads)
    IN  [threw |-> threw,
         result |-> IF threw THEN <<>> ELSE sorted,
         obb |-> cull.obb,
         children |-> cull.debug \o LoopDebugChildren(intersects, handled)
                      \o (IF ~threw /\ Len(sorted) > 0 THEN <<"ray">> ELSE <<>>),
         bboxes |-> {<<intersects[i].tile, intersects[i].slot>> :
                       i \in {j \in 1..handled : HitComputesBBox(intersects[j])}}]

----------------------------------------------------------------------------
(* The handler's operations *)

\* what a query reads: the pointer position, the flags and the registered tiles
QueryInputs(x) ==
    [x |-> x, enableRoadPicking |-> enableRoadPicking,
     enablePickTechnique |-> enablePickTechnique, m_roadPicker |-> m_roadPicker]

\* intersectMapObjects(x, y)
Query(x) ==
    LET run == QueryRun(x)
        again == /\ lastCall.op = "intersectMapObjects"
                 /\ lastCall.inputs = QueryInputs(x)
    IN  /\ tmpOBB' = run.obb
        /\ m_debugGroup' = [m_debugGroup EXCEPT !.children = run.children]
        /\ computedBBoxes' = computedBBoxes \cup run.bboxes
        /\ updateRequested' = IF run.threw THEN updateRequested ELSE TRUE
        /\ lastCall' = [op |-> "intersectMapObjects",
                        inputs |-> QueryInputs(x),
                        threw |-> run.threw,
                        result |-> run.result,
                        previous |-> IF again
                                     THEN Some([threw |-> lastCall.threw,
                                                result |-> lastCall.result])
                                     ELSE None]
        /\ UNCHANGED <<enableRoadPicking, enablePickTechnique, m_roadPicker, scene,
                       intersect, hitOut>>

\* RoadPicker.registerTile: builds and keeps the tile's road data, returns it
RoadIntersectionDataOf(tile) == [tile |-> tile.id, roads |-> tile.roads]

\* the value registerTile(tile) returns
RegisterReturns(tile) ==
    IF IsSome(m_roadPicker) THEN Some(RoadIntersectionDataOf(tile)) ELSE None

\* registerTile(tile)
RegisterTile(i) ==
    /\ i \in DOMAIN scene.tiles
    /\ m_roadPicker' =
          IF IsSome(m_roadPicker)
          THEN Some([registered |-> Val(m_roadPicker).registered \cup {scene.tiles[i].id}])
          ELSE None
    /\ lastCall' = [op |-> "registerTile",
                    tile |-> scene.tiles[i].id,
                    enableRoadPicking |-> enableRoadPicking,
                    returned |-> RegisterReturns(scene.tiles[i])]
    /\ UNCHANGED <<enableRoadPicking, enablePickTechnique, m_debugGroup, tmpOBB,
                   scene, updateRequested, computedBBoxes, intersect, hitOut>>

\* handler.enableRoadPicking = b
SetEnableRoadPicking(b) ==
    /\ enableRoadPicking' = b
    /\ UNCHANGED <<enablePickTechnique, m_roadPicker, m_debugGroup, tmpOBB, scene,
                   updateRequested, computedBBoxes, lastCall, intersect, hitOut>>

\* handler.enablePickTechnique = b
SetEnablePickTechnique(b) ==
    /\ enablePickTechnique' = b
    /\ UNCHANGED <<enableRoadPicking, m_roadPicker, m_debugGroup, tmpOBB, scene,
                   updateRequested, computedBBoxes, lastCall, intersect, hitOut>>

\* the listener of the map view's Render event
Render ==
    /\ m_debugGroup' = [m_debugGroup EXCEPT !.position = 0 - scene.worldCenter,
                                            !.attached = TRUE]
    /\ updateRequested' = FALSE
    /\ UNCHANGED <<enableRoadPicking, enablePickTechnique, m_roadPicker, tmpOBB,
                   scene, computedBBoxes, lastCall, intersect, hitOut>>

----------------------------------------------------------------------------
(* Scenes *)

Dists == 0..MaxDist
\* pointer positions, box positions and world centers, on one axis
Coords == {0, 1}
DataSources == {"omv", "Terrain", "background"}

\* a mesh of two polygon features with bounding volumes and debug data
SampleMesh ==
    [kind |-> "Mesh",
     userData |-> Some([feature |-> Some([geometryType |-> Some("Polygon"),
                                          starts |-> Some(<<0, 1>>),
                                          objInfos |-> Some(<<[id |-> 1], [id |-> 2]>>),
                                          boundingVolumes |-> Some(2)]),
                        technique |-> Some("technique")]),
     geometryDebug |-> TRUE]

\* the mesh as the ray hits it: at distance d, at vertex 1
SceneObject(d) ==
    [object |-> SampleMesh, distance |-> d, faceIndex |-> None, index |-> Some(1)]

Tile(id, body) ==
    [id |-> id,
     dataSource |-> body.dataSource,
     boundingBox |-> [position |-> body.position, extents |-> 0],
     objects |-> body.objects,
     roads |-> body.roads]

\* the lists of up to two rendered tiles with bodies from B
TileLists(B) ==
    {<<>>} \cup {<<Tile(1, a)>> : a \in B}
           \cup {<<Tile(1, a), Tile(2, b)>> : a \in B, b \in B}

\* tiles holding at most one object and at most one road, at any distance
TileBodies ==
    [dataSource : DataSources,
     position : Coords,
     objects : {<<>>} \cup {<<SceneObject(d)>> : d \in Dists},
     roads : {<<>>} \cup {<<[distance |-> d]>> : d \in Dists}]

Label(d) == [type |-> "Text", distance |-> d]

\* no text renderer, or one reporting at most one label hit
LabelLists == {None, Some(<<>>)} \cup {Some(<<Label(d)>>) : d \in Dists}

Scenes ==
    [worldCenter : Coords, textElementsRenderer : LabelLists, tiles : TileLists(TileBodies)]

\* a handler constructed over any scene, every tile registered as the
\* documentation of registerTile requires, then queried
InitScene ==
    /\ scene \in Scenes
    /\ \E roadPicking \in BOOLEAN :
          /\ enableRoadPicking = roadPicking
          /\ m_roadPicker = IF roadPicking
                            THEN Some([registered |-> {t.id : t \in
                                         {scene.tiles[i] : i \in DOMAIN scene.tiles}}])
                            ELSE None
    /\ enablePickTechnique = FALSE
    /\ m_debugGroup = NewGroup
    /\ tmpOBB = NewOBB
    /\ updateRequested = FALSE
    /\ computedBBoxes = {}
    /\ lastCall = NoCall
    /\ intersect = None
    /\ hitOut = None

\* one query of the scene drawn
NextScene == \E x \in Coords : lastCall = NoCall /\ Query(x)

SpecScene == InitScene /\ [][NextScene]_vars

\* the scenes of the life-cycle specification: tiles of a pickable and of a
\* skipped source, each with one object and one road, and one label
LifeTileBodies ==
    [dataSource : {"omv", "Terrain"},
     position : Coords,
     objects : {<<SceneObject(0)>>},
     roads : {<<[distance |-> 1]>>}]

LifeScenes ==
    [worldCenter : Coords,
     textElementsRenderer : {Some(<<Label(1)>>)},
     tiles : TileLists(LifeTileBodies)]

\* a handler constructed with either value of each flag
Init ==
    /\ scene \in LifeScenes
    /\ \E roadPicking \in BOOLEAN, pickTechnique \in BOOLEAN :
          Constructed(roadPicking, pickTechnique)
    /\ intersect = None
    /\ hitOut = None

Next ==
    \/ \E x \in Coords : Query(x)
    \/ \E i \in 1..2 : RegisterTile(i)
    \/ \E b \in BOOLEAN : SetEnableRoadPicking(b)
    \/ \E b \in BOOLEAN : SetEnablePickTechnique(b)
    \/ Render

Spec == Init /\ [][Next]_vars

----------------------------------------------------------------------------
(* Properties of the per-hit code, checked under SpecHit *)

HitDone == hitOut # None
HitFeatureData == Val(FeatureOf(intersect))
HitIsPoints == intersect.object.kind = "MapViewPoints"
HitHasIndex == IsSome(intersect.faceIndex) \/ IsSome(intersect.index)
\* the buffer-local index of the hit, as the claim defines it
HitK == IF IsSome(intersect.faceIndex) THEN 3 * Val(intersect.faceIndex)
        ELSE Val(intersect.index)
HitStartsMissing ==
    \/ ~IsSome(HitFeatureData.starts)
    \/ Len(Val(HitFeatureData.starts)) = 0

\* C2: for a non-point object whose `starts` is strictly ascending with at
\* least two entries and a hit with buffer-local index k, the resolved feature
\* index is (number of entries of starts that are <= k) - 1.
C2_ScanCountsOffsetsNotAbove ==
    (/\ HitDone
     /\ HasFeature(intersect)
     /\ ~HitIsPoints
     /\ HitHasIndex
     /\ IsSome(HitFeatureData.starts)
     /\ Len(Val(HitFeatureData.starts)) >= 2)
    => LET starts == Val(HitFeatureData.starts) IN
       Val(hitOut).featureIndex =
           Some(Cardinality({i \in DOMAIN starts : starts[i] <= HitK}) - 1)

\* C2 witness: a hit exactly on the second offset of a two-feature buffer
\* resolved to the feature that starts there
C2_Witness ==
    /\ HitDone
    /\ HasFeature(intersect)
    /\ ~HitIsPoints
    /\ ~IsSome(intersect.faceIndex)
    /\ intersect.index = Some(2)
    /\ HitFeatureData.starts = Some(<<0, 2>>)
    /\ Val(hitOut).featureIndex = Some(1)

\* C3 as stated: for every hit whose metadata has `starts` undefined or
\* empty, or that carries neither index, whatever the kind of the object,
\* the feature index is unresolved and the PickResult has no userData.
C3_UnresolvedWhateverTheKind ==
    (/\ HitDone
     /\ HasFeature(intersect)
     /\ (HitStartsMissing \/ ~HitHasIndex))
    => /\ Val(hitOut).featureIndex = None
       /\ ~Val(hitOut).threw
       /\ Val(Val(hitOut).pickResult).userData = None

\* C3 amended: the same, for every hit on an object that is not a point
\* primitive (MapViewPoints).
C3_UnresolvedForNonPoints ==
    (/\ HitDone
     /\ HasFeature(intersect)
     /\ ~HitIsPoints
     /\ (HitStartsMissing \/ ~HitHasIndex))
    => /\ Val(hitOut).featureIndex = None
       /\ ~Val(hitOut).threw
       /\ Val(Val(hitOut).pickResult).userData = None

\* C3 witness: a mesh hit with a vertex index, an empty `starts` and three
\* objInfos records produced a PickResult without userData
C3_Witness ==
    /\ HitDone
    /\ HasFeature(intersect)
    /\ intersect.object.kind = "Mesh"
    /\ intersect.index = Some(1)
    /\ HitFeatureData.starts = Some(<<>>)
    /\ IsSome(HitFeatureData.objInfos)
    /\ Len(Val(HitFeatureData.objInfos)) = 3
    /\ Val(Val(hitOut).pickResult).userData = None

\* C4: for a hit on a point-primitive object that has feature metadata the
\* resolved feature index is the hit's raw point index, whatever `starts`
\* holds and whether or not a face index is present.
C4_PointsResolveToRawIndex ==
    (HitDone /\ HasFeature(intersect) /\ HitIsPoints)
    => Val(hitOut).featureIndex = intersect.index

\* C4 witness: a point hit with index 3 and a face index, on metadata whose
\* starts scan would give 1, resolved to 3
C4_Witness ==
    /\ HitDone
    /\ HasFeature(intersect)
    /\ HitIsPoints
    /\ intersect.index = Some(3)
    /\ intersect.faceIndex = Some(0)
    /\ HitFeatureData.starts = Some(<<0, 1, 2>>)
    /\ Val(hitOut).featureIndex = Some(3)

\* the classification table as the specification states it
C10_Table(g) ==
    IF g \in {Some("Point"), Some("Text")} THEN "Point"
    ELSE IF g \in {Some("Line"), Some("ExtrudedLine"), Some("SolidLine"),
                   Some("TextPath")} THEN "Line"
    ELSE IF g \in {Some("Polygon"), Some("ExtrudedPolygon")} THEN "Area"
    ELSE IF g = Some("Object3D") THEN "Object3D"
    ELSE "Unspecified"

\* C10: for every geometry hit with feature metadata the result's type is
\* given by the geometry type alone, by the fixed table (Point, Text -> Point;
\* the line variants -> Line; the polygon variants -> Area; Object3D ->
\* Object3D; anything else or missing -> Unspecified).
C10_TypeFollowsGeometryType ==
    (HitDone /\ HasFeature(intersect) /\ IsSome(Val(hitOut).pickResult))
    => Val(Val(hitOut).pickResult).type = C10_Table(HitFeatureData.geometryType)

\* C10 witness: a polygon hit on a line object, resolved to feature 1 with
\* the technique flag on, classified Area
C10_Witness ==
    /\ HitDone
    /\ HasFeature(intersect)
    /\ intersect.object.kind = "Line"
    /\ enablePickTechnique
    /\ HitFeatureData.geometryType = Some("Polygon")
    /\ Val(hitOut).featureIndex = Some(1)
    /\ Val(Val(hitOut).pickResult).type = "Area"

\* the PickResult pushed for the hit
HitResult == Val(Val(hitOut).pickResult)
HitPushed == HitDone /\ IsSome(Val(hitOut).pickResult)

\* C11: a geometry result has a featureId exactly when its object's objInfos
\* holds exactly one record, and it is then the id of that record; it has
\* none when objInfos is absent, empty or longer, or when the hit has no
\* feature metadata; and a result with a featureId and userData has the
\* userData of the feature the featureId names.
C11_FeatureIdOnlyForSingleFeature ==
    HitPushed =>
        /\ HitResult.featureId =
              IF /\ HasFeature(intersect)
                 /\ IsSome(HitFeatureData.objInfos)
                 /\ Len(Val(HitFeatureData.objInfos)) = 1
              THEN Some(Val(HitFeatureData.objInfos)[1].id)
              ELSE None
        /\ (IsSome(HitResult.featureId) /\ IsSome(HitResult.userData))
           => Val(HitResult.userData).id = Val(HitResult.featureId)

\* C11 witness: a mesh hit on a single-feature object, resolved to feature 0,
\* got that feature's record as userData and its id as featureId
C11_Witness ==
    /\ HitPushed
    /\ HasFeature(intersect)
    /\ intersect.object.kind = "Mesh"
    /\ HitFeatureData.starts = Some(<<0>>)
    /\ HitFeatureData.objInfos = Some(<<[id |-> 1]>>)
    /\ Val(hitOut).featureIndex = Some(0)
    /\ HitResult.userData = Some([id |-> 1])
    /\ HitResult.featureId = Some(1)

\* C12: a number resolved for a non-point object whose `starts` is not empty
\* is a position of `starts` (0 .. starts.length - 1), so that with as many
\* objInfos as offsets the hit's PickResult gets an existing record.
C12_ResolvedIndexWithinStarts ==
    (/\ HitDone
     /\ HasFeature(intersect)
     /\ ~HitIsPoints
     /\ IsSome(Val(hitOut).featureIndex))
    => LET starts == Val(HitFeatureData.starts)
           featureIndex == Val(Val(hitOut).featureIndex)
       IN  /\ 0 <= featureIndex
           /\ featureIndex <= Len(starts) - 1
           /\ (/\ IsSome(HitFeatureData.objInfos)
               /\ Len(Val(HitFeatureData.objInfos)) = Len(starts))
              => /\ ~Val(hitOut).threw
                 /\ IsSome(HitResult.userData)

----------------------------------------------------------------------------
(* Properties of one query, checked under SpecScene *)

Returned == lastCall.op = "intersectMapObjects" /\ ~lastCall.threw
IsGeometryResult(r) == IsSome(r.intersection)
SourcesOf(results) == {results[i].source : i \in DOMAIN results}

\* C1: the list a query returns is sorted ascending by distance, whatever
\* label, geometry and road hits were accumulated.
C1_ResultSortedByDistance ==
    Returned =>
        \A i \in 1..(Len(lastCall.result) - 1) :
            lastCall.result[i].distance <= lastCall.result[i + 1].distance

\* C1 witness: hits of all three sources were accumulated out of order
\* (label and geometry at the greater distance, then a nearer road hit) and
\* the road hit, appended last, is returned first
C1_Witness ==
    /\ Returned
    /\ Len(lastCall.result) = 3
    /\ lastCall.result[1].source = "road"
    /\ lastCall.result[2].source = "label"
    /\ lastCall.result[3].source = "geometry"
    /\ lastCall.result[1].distance < lastCall.result[2].distance

\* the broad-phase test as the claim states it: a rendered tile of a data
\* source other than Terrain and background whose bounding volume, moved by
\* the world center, contains the pointer ray
C6_PassesBroadPhase(t, x) ==
    /\ t.dataSource \notin {"Terrain", "background"}
    /\ t.boundingBox.position - scene.worldCenter - t.boundingBox.extents <= x
    /\ x <= t.boundingBox.position - scene.worldCenter + t.boundingBox.extents

\* C6: every geometry result (one carrying an intersection) comes from an
\* object of a tile that passes the broad-phase test; so a ray that misses
\* every tile's volume yields no geometry result.
C6_GeometryOnlyFromTilesHit ==
    Returned =>
        /\ \A i \in DOMAIN lastCall.result :
              IsGeometryResult(lastCall.result[i]) =>
                  LET tileId == Val(lastCall.result[i].intersection).tile IN
                  /\ tileId \in DOMAIN scene.tiles
                  /\ C6_PassesBroadPhase(scene.tiles[tileId], lastCall.inputs.x)
        /\ (\A k \in DOMAIN scene.tiles :
               ~C6_PassesBroadPhase(scene.tiles[k], lastCall.inputs.x))
           => \A i \in DOMAIN lastCall.result : ~IsGeometryResult(lastCall.result[i])

\* C6 witness: two pickable tiles with one object each, the first missed by
\* the ray and the second hit; the query returned the second tile's
\* geometry hit, no hit of the first tile's object, and a road and a label hit
C6_Witness ==
    /\ Returned
    /\ Len(scene.tiles) = 2
    /\ \A k \in 1..2 : scene.tiles[k].dataSource = "omv" /\ Len(scene.tiles[k].objects) = 1
    /\ ~C6_PassesBroadPhase(scene.tiles[1], lastCall.inputs.x)
    /\ C6_PassesBroadPhase(scene.tiles[2], lastCall.inputs.x)
    /\ {Val(lastCall.result[i].intersection).tile :
          i \in {j \in DOMAIN lastCall.result : IsGeometryResult(lastCall.result[j])}} = {2}
    /\ {"label", "road"} \subseteq SourcesOf(lastCall.result)

\* the order in which the sources append to the result list
C7_Rank(r) == CASE r.source = "label" -> 1 [] r.source = "geometry" -> 2 [] OTHER -> 3

\* C7: among results of equal distance a label hit precedes a geometry hit,
\* a geometry hit precedes a road hit, and two hits of one source keep the
\* order in which that source produced them.
C7_TiesKeepInsertionOrder ==
    Returned =>
        \A i, j \in DOMAIN lastCall.result :
            (/\ i < j
             /\ lastCall.result[i].distance = lastCall.result[j].distance)
            => /\ C7_Rank(lastCall.result[i]) <= C7_Rank(lastCall.result[j])
               /\ (lastCall.result[i].source = lastCall.result[j].source
                   => lastCall.result[i].seq < lastCall.result[j].seq)

\* C7 witness: a label hit, two geometry hits and two road hits, all at the
\* same distance, were returned
C7_Witness ==
    /\ Returned
    /\ Len(lastCall.result) = 5
    /\ SourcesOf(lastCall.result) = {"label", "geometry", "road"}
    /\ \A i \in DOMAIN lastCall.result : lastCall.result[i].distance = 0

----------------------------------------------------------------------------
(* Properties of the handler's life cycle, checked under Spec *)

\* C5: a query never terminates abnormally, however the handler was
\* constructed and whatever flags were assigned and tiles registered before.
C5_QueryNeverThrows ==
    lastCall.op = "intersectMapObjects" => ~lastCall.threw

\* C8: a query repeated with the same pointer position, flags and registered
\* road data, with no other call in between, has the same outcome as the
\* query before it: the same ordered list of results.
C8_RepeatedQuerySameResult ==
    (lastCall.op = "intersectMapObjects" /\ IsSome(lastCall.previous))
    => /\ Val(lastCall.previous).threw = lastCall.threw
       /\ Val(lastCall.previous).result = lastCall.result

\* C8 witness: a repeated query that returned a geometry hit, run while the
\* earlier query's debug children, scratch box, computed bounding box and
\* update request were still in place
C8_Witness ==
    /\ Returned
    /\ IsSome(lastCall.previous)
    /\ "geometry" \in SourcesOf(lastCall.result)
    /\ "road" \in SourcesOf(lastCall.result)
    /\ tmpOBB # NewOBB
    /\ Len(m_debugGroup.children) > 1
    /\ computedBBoxes # {}
    /\ updateRequested

\* C9: registerTile returns nothing when road picking is disabled at the
\* time of the call and the tile's road data otherwise, after any assignments
\* to enableRoadPicking.
C9_RegisterTileFollowsFlag ==
    lastCall.op = "registerTile" =>
        lastCall.returned =
            IF lastCall.enableRoadPicking
            THEN Some(RoadIntersectionDataOf(scene.tiles[lastCall.tile]))
            ELSE None

====
